---- MODULE Spec2Model ----
(***************************************************************************)
(* Inkwell AI: the client-side order pipeline of src/index.html (the React *)
(* component App and its child CheckoutForm) as a state machine.           *)
(*                                                                         *)
(* The three HTTP collaborators (story generation, payment-intent          *)
(* creation, order creation) and Stripe's confirmPayment are the           *)
(* environment: a call that is in flight is resolved by a response drawn   *)
(* from FetchResponses / ConfirmResults, and the handler's continuation    *)
(* (the code after the await) runs in the same step.  The routes the       *)
(* client posts to (/api/story/generate, /api/payment/create-payment-      *)
(* intent, /api/order/create) are not the routes src/server.js serves, so  *)
(* no answer is excluded.                                                  *)
(*                                                                         *)
(* The draft handlers (handleInputChange, handleOptionSelect,              *)
(* handleImageChange) carry no condition of their own, so they may run in  *)
(* every view that is rendered.  STRIPE_PUBLISHABLE_KEY is a deployment    *)
(* setting: both the empty key of the source and a configured key are      *)
(* initial states.                                                         *)
(*                                                                         *)
(* Money is held in mills (1/1000 of a dollar), so that every price of     *)
(* PRICING_DATA and the 50 % margin are exact integers: 3.00 is 3000,      *)
(* 0.02 is 20, 4.99 is 4990.  A minor unit (cent) is 10 mills.             *)
(*                                                                         *)
(* Text typed by the user is a sequence of one-character strings, so that  *)
(* parseInt is computed on the characters.                                 *)
(*                                                                         *)
(* The payment-intent handler of src/server.js (POST /api/create-payment-  *)
(* intent) is a second state machine, ServerSpec, over the variable        *)
(* server; the payment provider (stripe.paymentIntents.create) is its      *)
(* environment.  The client never reaches this route, so the client        *)
(* actions leave server alone.                                             *)
(***************************************************************************)
EXTENDS Integers, Sequences, FiniteSets, TLC

\* Number of draft mutations (handleInputChange, handleOptionSelect,
\* handleImageChange with a file) explored per session.
MaxEdits == 3

VARIABLES
    formData,        \* App: the draft (useState, index.html:94)
    story,           \* App: generated story text (index.html:100)
    uiState,         \* App: "form" | "preview" | "finalize" | "confirmation"
    cart,            \* App: [subtotal, shipping, total] in mills
    isLoading,       \* App: draft submission in flight
    imagePreview,    \* App: object URL of the cover image, or Null
    clientSecret,    \* App: payment session handle, "" when none
    isProcessing,    \* CheckoutForm: payment confirmation in flight
    errorMessage,    \* CheckoutForm: last confirmation error, "" when none
    stripe,          \* "unconfigured" | "loading" | "ready" (useStripe())
    storyReqs,       \* in-flight POST /api/story/generate, each its FormData body
    sessionReqs,     \* in-flight POST /api/payment/create-payment-intent, each its totalAmount
    confirmReqs,     \* number of in-flight stripe.confirmPayment calls
    orderReqs,       \* number of in-flight POST /api/order/create
    alertMsg,        \* the most recent alert() shown, "none" when none
    lastResponse,    \* the call resolved last and the response it got
    paymentConfirmed,\* confirmPayment has returned without an error in this session
    orderIssued,     \* number of order-creation requests issued in this session
    edits,           \* number of draft mutations in this session
    server           \* server.js: the payment-intent requests and how far each got

appVars == << formData, story, uiState, cart, isLoading, imagePreview, clientSecret,
           isProcessing, errorMessage, stripe, storyReqs, sessionReqs, confirmReqs,
           orderReqs, alertMsg, lastResponse, paymentConfirmed, orderIssued, edits >>

vars == << appVars, server >>

----------------------------------------------------------------------------
\* JavaScript values

Null == "null"
Undefined == "undefined"
EmptyText == << >>

\* JavaScript truthiness of a string-valued slot (a string, null or undefined).
Truthy(v) == v \notin {"", Null, Undefined}

----------------------------------------------------------------------------
\* Configuration (index.html:7-20)

PROFIT_MARGIN_PERCENTAGE == 50

PRICING_DATA ==
    [ bookSize      |-> [ k \in {"0600X0900"} |-> 3000 ],
      bookType      |-> [ k \in {"PB", "HC", "EBOOK"} |->
                            CASE k = "PB" -> 1500 [] k = "HC" -> 6500 [] OTHER -> 0 ],
      coverFinish   |-> [ k \in {"G", "M"} |-> IF k = "M" THEN 1500 ELSE 0 ],
      interiorPrint |-> [ k \in {"BW", "FC"} |-> IF k = "BW" THEN 20 ELSE 70 ],
      paperType     |-> [ k \in {"060CW", "080CW"} |-> IF k = "080CW" THEN 2000 ELSE 0 ],
      shipping      |-> [ k \in {"standard", "express"} |->
                            IF k = "standard" THEN 4990 ELSE 10990 ] ]

\* Mutant of PriceOf: a missing key falls back to 1.00 instead of 0.
PriceOf_FallbackOne(group, key) ==
    IF key \in DOMAIN PRICING_DATA[group] THEN PRICING_DATA[group][key] ELSE 1000

\* PRICING_DATA.group[key]?.field || 0
PriceOf(group, key) ==
    IF key \in DOMAIN PRICING_DATA[group] THEN PRICING_DATA[group][key] ELSE 0

----------------------------------------------------------------------------
\* parseInt (index.html:189): leading blanks skipped, optional sign, then the
\* longest prefix of decimal digits; NaN (nan = TRUE) when there is no digit.

DigitValue == [ c \in {"0", "1", "2", "3", "4", "5", "6", "7", "8", "9"} |->
                  CASE c = "0" -> 0 [] c = "1" -> 1 [] c = "2" -> 2 [] c = "3" -> 3
                    [] c = "4" -> 4 [] c = "5" -> 5 [] c = "6" -> 6 [] c = "7" -> 7
                    [] c = "8" -> 8 [] OTHER -> 9 ]

RECURSIVE DigitPrefix(_, _, _)
\* <<value, seen>> of the longest digit prefix of s, continuing from acc.
DigitPrefix(s, acc, seen) ==
    IF s = << >> \/ Head(s) \notin DOMAIN DigitValue
    THEN << acc, seen >>
    ELSE DigitPrefix(Tail(s), 10 * acc + DigitValue[Head(s)], TRUE)

RECURSIVE SkipSpaces(_)
SkipSpaces(s) == IF s # << >> /\ Head(s) = " " THEN SkipSpaces(Tail(s)) ELSE s

ParseInt(text) ==
    LET s    == SkipSpaces(text)
        neg  == s # << >> /\ Head(s) = "-"
        body == IF s # << >> /\ Head(s) \in {"-", "+"} THEN Tail(s) ELSE s
        r    == DigitPrefix(body, 0, FALSE)
    IN  [ nan |-> ~r[2], value |-> IF neg THEN 0 - r[1] ELSE r[1] ]

\* parseInt(formData.pageRange) || 0: NaN and 0 are falsy.
PageCount(text) ==
    LET n == ParseInt(text) IN IF n.nan \/ n.value = 0 THEN 0 ELSE n.value

----------------------------------------------------------------------------
\* Pricing effect (index.html:187-205)

BaseCost(fd) ==
      PriceOf("bookSize", fd.bookSize)
    + PriceOf("bookType", fd.bookType)
    + PriceOf("coverFinish", fd.coverFinish)
    + PriceOf("paperType", fd.paperType)
    + PageCount(fd.pageRange) * PriceOf("interiorPrint", fd.interiorPrint)

\* Mutant of ShippingPrice: the EBOOK override of line 198 left out.
ShippingPrice_NoEbookOverride(fd) == PriceOf("shipping", fd.shipping)

ShippingPrice(fd) ==
    IF fd.bookType = "EBOOK" THEN 0 ELSE PriceOf("shipping", fd.shipping)

\* Mutant of ComputeCart: the margin taken on base cost plus shipping.
ComputeCart_MarginOnShipping(fd) ==
    LET cost     == BaseCost(fd) + ShippingPrice(fd)
        subtotal == cost + (cost * PROFIT_MARGIN_PERCENTAGE) \div 100
    IN  [ subtotal |-> subtotal,
          shipping |-> ShippingPrice(fd),
          total    |-> subtotal + ShippingPrice(fd) ]

ComputeCart(fd) ==
    LET baseCost == BaseCost(fd)
        profit   == (baseCost * PROFIT_MARGIN_PERCENTAGE) \div 100
        subtotal == baseCost + profit
    IN  [ subtotal |-> subtotal,
          shipping |-> ShippingPrice(fd),
          total    |-> subtotal + ShippingPrice(fd) ]

\* Math.round(cart.total * 100): mills to minor units, halves rounded up.
RoundToMinorUnits(mills) == (mills + 5) \div 10

----------------------------------------------------------------------------
\* Inputs of the handlers and answers of the collaborators

\* (e.target.id, e.target.value) of a change event on a text input.  The free
\* text of pageRange is a count, a negative count or no number at all; the other
\* fields are only stored, so one non-empty text each is enough.
InputChoices == { << "bookTitle", << "T" >> >>, << "recipientName", << "R" >> >>,
                  << "genre", << "G" >> >>, << "promptText", << "P" >> >>,
                  << "shippingName", << "N" >> >>, << "shippingEmail", << "@" >> >>,
                  << "pageRange", << "1", "0" >> >>, << "pageRange", << "-", "5" >> >>,
                  << "pageRange", << "a", "b" >> >>, << "pageRange", EmptyText >> }

\* (group, value) of a click on an OptionCard; "ZZ" is a value the price table
\* lacks.
OptionChoices == { << "bookSize", "0600X0900" >>, << "bookType", "EBOOK" >>,
                   << "coverFinish", "ZZ" >>, << "interiorPrint", "BW" >>,
                   << "shipping", "standard" >> }

\* e.target.files[0]: undefined when the file dialog is cancelled.
Files == { Undefined, "cover.png" }

\* What the contentEditable story box can hold on blur.
StoryEdits == { "", "edited story" }

\* How a fetch() followed by response.json() can end:
\*   network_error    fetch rejects
\*   http_error_json  non-2xx status, JSON body with an error field
\*   http_error_text  non-2xx status, body that is not JSON
\*   ok_text          2xx status, body that is not JSON
\*   ok_json_missing  2xx status, JSON body without the expected field
\*   ok_json          2xx status, JSON body with the expected field
FetchResponses == { "network_error", "http_error_json", "http_error_text",
                    "ok_text", "ok_json_missing", "ok_json" }

FetchRejects(r) == r = "network_error"
ResponseOk(r) == r \in { "ok_text", "ok_json_missing", "ok_json" }
BodyIsJson(r) == r \in { "http_error_json", "ok_json_missing", "ok_json" }
\* data.story / data.clientSecret of a parsed body
BodyField(r, value) == IF r = "ok_json" THEN value ELSE Undefined

\* stripe.confirmPayment resolves to { error } or to {} .
ConfirmResults == { "error", "success" }

----------------------------------------------------------------------------
\* The payment-intent handler's arithmetic (server.js:104-130)

\* The handler's price table, in cents (server.js:108-111).
prices ==
    [ book     |-> [ paperback |-> 2999, hardcover |-> 4299 ],
      shipping |-> [ standard |-> 499, express |-> 1099 ] ]

\* Names every object literal inherits from Object.prototype; both are
\* functions.
ObjectPrototypeKeys == { "constructor", "toString" }

\* A JavaScript value of the handler: a number, a string made by + from the
\* listed operands, a function, or undefined.
NumberValue(n) == [ kind |-> "number", value |-> n, parts |-> << >> ]
FunctionValue == [ kind |-> "function", value |-> 0, parts |-> << >> ]
UndefinedValue == [ kind |-> "undefined", value |-> 0, parts |-> << >> ]
StringOf(a, b) ==
    [ kind |-> "string", value |-> 0,
      parts |-> << [ kind |-> a.kind, value |-> a.value ],
                   [ kind |-> b.kind, value |-> b.value ] >> ]

\* table[key]: the table's own entry, else what the object literal inherits,
\* else undefined (a missing key reads table["undefined"]).
Lookup(table, key) ==
    IF key \in DOMAIN table THEN NumberValue(table[key])
    ELSE IF key \in ObjectPrototypeKeys THEN FunctionValue
    ELSE UndefinedValue

\* v || 0
OrZero(v) ==
    IF v.kind = "undefined" \/ (v.kind = "number" /\ v.value = 0)
    THEN NumberValue(0) ELSE v

\* a + b: numbers add, anything else concatenates to a string.
Plus(a, b) ==
    IF a.kind = "number" /\ b.kind = "number"
    THEN NumberValue(a.value + b.value) ELSE StringOf(a, b)

\* v === 0
StrictlyZero(v) == v.kind = "number" /\ v.value = 0

\* const totalAmount = (prices.book[bookType] || 0) +
\*                     (prices.shipping[shippingType] || 0);   (server.js:113)
TotalAmount(body) ==
    Plus(OrZero(Lookup(prices.book, body.bookType)),
         OrZero(Lookup(prices.shipping, body.shippingType)))

\* Request bodies: bookType and shippingType each missing, a key of the price
\* table, a key of no object, or (bookType) an inherited name; totalAmount
\* missing or a number of cents.  The client's own request carries totalAmount
\* alone (index.html:147-151).
BookTypes == { Undefined, "paperback", "hardcover", "PB", "constructor" }
ShippingTypes == { Undefined, "standard", "express", "ZZ" }
TotalAmounts == { << >>, << 1 >>, << 4500 >> }
RequestBodies ==
    [ bookType : BookTypes, shippingType : ShippingTypes, totalAmount : TotalAmounts ]

\* Two requests are followed side by side.
PaymentIntentRequests == { "a", "b" }

NoBody == [ bookType |-> Undefined, shippingType |-> Undefined, totalAmount |-> << >> ]
NoResult == [ status |-> 0, totalAmount |-> UndefinedValue ]

\* pc: "idle" (not received), "creating" (awaiting
\* stripe.paymentIntents.create), "done" (answered); providerCalls: the
\* amounts passed to the provider; response: the status and the totalAmount
\* of the answer.
ServerStarted ==
    [ r \in PaymentIntentRequests |->
        [ pc |-> "idle", body |-> NoBody, providerCalls |-> << >>, response |-> NoResult ] ]

----------------------------------------------------------------------------
\* Initial state (index.html:94-105, 54-55, 11)

InitialFormData ==
    [ bookTitle |-> EmptyText, recipientName |-> EmptyText, genre |-> EmptyText,
      coverImage |-> Null, promptText |-> EmptyText,
      bookSize |-> "", bookType |-> "", coverFinish |-> "", interiorPrint |-> "",
      paperType |-> "", pageRange |-> EmptyText,
      shipping |-> "", shippingName |-> EmptyText, shippingEmail |-> EmptyText ]

NoResponse == [ call |-> "none", resp |-> "none" ]

\* The state of a freshly mounted App; cfg is "unconfigured" when
\* STRIPE_PUBLISHABLE_KEY is empty (stripePromise null) and "loading" otherwise.
Mounted(cfg) ==
    /\ formData = InitialFormData
    /\ story = ""
    /\ uiState = "form"
    /\ cart = ComputeCart(InitialFormData)
    /\ isLoading = FALSE
    /\ imagePreview = Null
    /\ clientSecret = ""
    /\ isProcessing = FALSE
    /\ errorMessage = ""
    /\ stripe = cfg
    /\ storyReqs = << >>
    /\ sessionReqs = << >>
    /\ confirmReqs = 0
    /\ orderReqs = 0
    /\ alertMsg = "none"
    /\ lastResponse = NoResponse
    /\ paymentConfirmed = FALSE
    /\ orderIssued = 0
    /\ edits = 0

Init ==
    /\ \E cfg \in { "unconfigured", "loading" } : Mounted(cfg)
    /\ server = ServerStarted

----------------------------------------------------------------------------
\* What is rendered

\* The preview view evaluates story.replace(...) (index.html:243): with story
\* undefined the render throws and React unmounts the whole tree.
AppRendered == ~(uiState = "preview" /\ story = Undefined)

\* Mutant of CanGenerate: the button without disabled={isLoading}.
CanGenerate_NeverDisabled == uiState = "form"

\* "Weave My Tale!" (index.html:230-236): shown in form, disabled={isLoading}.
CanGenerate == uiState = "form" /\ ~isLoading

\* Mutant of CanFinalize: the finalize button rendered outside the preview view.
CanFinalize_AnyView == uiState \in { "form", "preview" } /\ AppRendered

\* "Looks Good, Finalize Order" (index.html:240-245): shown in preview.
CanFinalize == uiState = "preview" /\ AppRendered

\* Mutant of CheckoutShown: the payment form rendered without the
\* clientSecret gate of line 260.
CheckoutShown_NoSecretGate == uiState = "finalize" /\ stripe # "unconfigured"

\* CheckoutForm is mounted (index.html:249, 260-264).
CheckoutShown == uiState = "finalize" /\ Truthy(clientSecret) /\ stripe # "unconfigured"

\* Mutant of CanPay: the pay button without disabled={isProcessing}.
CanPay_NoProcessingGuard == CheckoutShown /\ stripe = "ready"

\* "Pay & Place Order" (index.html:83): disabled={isProcessing || !stripe};
\* handleSubmit returns early without stripe (index.html:59).
CanPay == CheckoutShown /\ ~isProcessing /\ stripe = "ready"

\* "Create Another Book" (index.html:277-282).
CanReload == uiState = "confirmation"

----------------------------------------------------------------------------
\* Draft mutations (index.html:108-116), each followed by the pricing effect

\* setFormData(prev => ({ ...prev, [key]: value })), then the pricing effect
\* that depends on [formData] sets the cart (index.html:187-205).
ApplyField(key, value) ==
    /\ formData' = [ formData EXCEPT ![key] = value ]
    /\ cart' = ComputeCart(formData')

SetField(key, value) ==
    /\ AppRendered
    /\ edits < MaxEdits
    /\ ApplyField(key, value)
    /\ edits' = edits + 1

HandleInputChange(id, value) ==
    /\ SetField(id, value)
    /\ UNCHANGED server
    /\ UNCHANGED << story, uiState, isLoading, imagePreview, clientSecret, isProcessing,
                    errorMessage, stripe, storyReqs, sessionReqs, confirmReqs, orderReqs,
                    alertMsg, lastResponse, paymentConfirmed, orderIssued >>

HandleOptionSelect(key, value) ==
    /\ SetField(key, value)
    /\ UNCHANGED server
    /\ UNCHANGED << story, uiState, isLoading, imagePreview, clientSecret, isProcessing,
                    errorMessage, stripe, storyReqs, sessionReqs, confirmReqs, orderReqs,
                    alertMsg, lastResponse, paymentConfirmed, orderIssued >>

HandleImageChange(file) ==
    /\ AppRendered
    /\ IF Truthy(file)
       THEN /\ SetField("coverImage", file)
            /\ imagePreview' = "blob:cover"
       ELSE UNCHANGED << formData, cart, edits, imagePreview >>
    /\ UNCHANGED server
    /\ UNCHANGED << story, uiState, isLoading, clientSecret, isProcessing,
                    errorMessage, stripe, storyReqs, sessionReqs, confirmReqs, orderReqs,
                    alertMsg, lastResponse, paymentConfirmed, orderIssued >>

\* onBlur of the contentEditable story box (index.html:243)
HandleStoryEdit(text) ==
    /\ uiState = "preview"
    /\ AppRendered
    /\ story' = text
    /\ UNCHANGED server
    /\ UNCHANGED << formData, uiState, cart, isLoading, imagePreview, clientSecret,
                    isProcessing, errorMessage, stripe, storyReqs, sessionReqs,
                    confirmReqs, orderReqs, alertMsg, lastResponse, paymentConfirmed,
                    orderIssued, edits >>

----------------------------------------------------------------------------
\* Form -> Preview: handleStoryGeneration (index.html:118-141)

RemoveAt(seq, i) == SubSeq(seq, 1, i - 1) \o SubSeq(seq, i + 1, Len(seq))

\* Click on "Weave My Tale!": the code up to the await of fetch.
HandleStoryGeneration ==
    /\ CanGenerate
    /\ isLoading' = TRUE
    /\ storyReqs' = Append(storyReqs, formData)
    /\ UNCHANGED server
    /\ UNCHANGED << formData, story, uiState, cart, imagePreview, clientSecret,
                    isProcessing, errorMessage, stripe, sessionReqs, confirmReqs,
                    orderReqs, alertMsg, lastResponse, paymentConfirmed, orderIssued,
                    edits >>

\* Mutant of StoryCallThrows: the status check "if (!response.ok) throw" left out.
StoryCallThrows_NoStatusCheck(r) == FetchRejects(r) \/ ~BodyIsJson(r)

\* The try block throws: fetch rejects, response.json() throws, or
\* !response.ok (index.html:127-132).
StoryCallThrows(r) == FetchRejects(r) \/ ~BodyIsJson(r) \/ ~ResponseOk(r)

\* The response arrives: the rest of the try block, catch and finally.
StoryResponse(i, r) ==
    /\ i \in 1..Len(storyReqs)
    /\ storyReqs' = RemoveAt(storyReqs, i)
    /\ lastResponse' = [ call |-> "story", resp |-> r ]
    /\ IF StoryCallThrows(r)
       THEN /\ alertMsg' = "Could not generate story"
            /\ UNCHANGED << story, uiState >>
       ELSE /\ story' = BodyField(r, "generated story")
            /\ uiState' = "preview"
            /\ UNCHANGED alertMsg
    /\ isLoading' = FALSE
    /\ UNCHANGED server
    /\ UNCHANGED << formData, cart, imagePreview, clientSecret, isProcessing,
                    errorMessage, stripe, sessionReqs, confirmReqs, orderReqs,
                    paymentConfirmed, orderIssued, edits >>

----------------------------------------------------------------------------
\* Preview -> Finalize: handleFinalizeOrder (index.html:143-159)

\* Mutant of NeedsPaymentSession: the request made whatever the total is.
NeedsPaymentSession_Always(c) == TRUE

\* if (cart.total > 0) (index.html:145)
NeedsPaymentSession(c) == c.total > 0

\* Click on "Looks Good, Finalize Order": the code up to the await of fetch.
HandleFinalizeOrder ==
    /\ CanFinalize
    /\ uiState' = "finalize"
    /\ IF NeedsPaymentSession(cart)
       THEN sessionReqs' = Append(sessionReqs, RoundToMinorUnits(cart.total))
       ELSE UNCHANGED sessionReqs
    /\ UNCHANGED server
    /\ UNCHANGED << formData, story, cart, isLoading, imagePreview, clientSecret,
                    isProcessing, errorMessage, stripe, storyReqs, confirmReqs,
                    orderReqs, alertMsg, lastResponse, paymentConfirmed, orderIssued,
                    edits >>

\* The try block throws (index.html:147-153).
SessionCallThrows(r) == FetchRejects(r) \/ ~BodyIsJson(r) \/ ~ResponseOk(r)

SessionResponse(i, r) ==
    /\ i \in 1..Len(sessionReqs)
    /\ sessionReqs' = RemoveAt(sessionReqs, i)
    /\ lastResponse' = [ call |-> "session", resp |-> r ]
    /\ IF SessionCallThrows(r)
       THEN /\ alertMsg' = "Could not initialize payment"
            /\ UNCHANGED clientSecret
       ELSE /\ clientSecret' = BodyField(r, "pi_secret")
            /\ UNCHANGED alertMsg
    /\ UNCHANGED server
    /\ UNCHANGED << formData, story, uiState, cart, isLoading, imagePreview,
                    isProcessing, errorMessage, stripe, storyReqs, confirmReqs,
                    orderReqs, paymentConfirmed, orderIssued, edits >>

----------------------------------------------------------------------------
\* Finalize -> Confirmation: CheckoutForm.handleSubmit (index.html:57-78) and
\* onPaymentSuccess (index.html:161-185)

\* Stripe.js finishes loading: useStripe() turns from null to the instance.
StripeLoaded ==
    /\ stripe = "loading"
    /\ stripe' = "ready"
    /\ UNCHANGED server
    /\ UNCHANGED << formData, story, uiState, cart, isLoading, imagePreview,
                    clientSecret, isProcessing, errorMessage, storyReqs, sessionReqs,
                    confirmReqs, orderReqs, alertMsg, lastResponse, paymentConfirmed,
                    orderIssued, edits >>

\* Submit of the payment form: the code up to the await of confirmPayment.
HandleSubmit ==
    /\ CanPay
    /\ isProcessing' = TRUE
    /\ confirmReqs' = confirmReqs + 1
    /\ UNCHANGED server
    /\ UNCHANGED << formData, story, uiState, cart, isLoading, imagePreview,
                    clientSecret, errorMessage, stripe, storyReqs, sessionReqs,
                    orderReqs, alertMsg, lastResponse, paymentConfirmed, orderIssued,
                    edits >>

\* Mutant of CallsOnPaymentSuccess: onPaymentSuccess() called after the
\* if/else instead of inside the else branch.
CallsOnPaymentSuccess_Always(r) == TRUE

\* if (error) ... else { ...; onPaymentSuccess(); } (index.html:71-77)
CallsOnPaymentSuccess(r) == r # "error"

\* Mutant of ResetsProcessing: setIsProcessing(false) on both branches.
ResetsProcessing_Always(r) == TRUE

\* setIsProcessing(false) is in the error branch only (index.html:71-73).
ResetsProcessing(r) == r = "error"

\* Mutant of ConfirmErrorText: the error branch without setErrorMessage.
ConfirmErrorText_Dropped(r) == ""

\* setErrorMessage(error.message) / setErrorMessage('') (index.html:72, 75)
ConfirmErrorText(r) == IF r = "error" THEN "card declined" ELSE ""

\* confirmPayment resolves; on the else branch onPaymentSuccess runs up to the
\* await of its fetch, which issues the order-creation request.
ConfirmResponse(r) ==
    /\ confirmReqs > 0
    /\ confirmReqs' = confirmReqs - 1
    /\ lastResponse' = [ call |-> "confirm", resp |-> r ]
    /\ paymentConfirmed' = (paymentConfirmed \/ r = "success")
    /\ errorMessage' = ConfirmErrorText(r)
    /\ isProcessing' = IF ResetsProcessing(r) THEN FALSE ELSE isProcessing
    /\ IF CallsOnPaymentSuccess(r)
       THEN /\ orderReqs' = orderReqs + 1
            /\ orderIssued' = orderIssued + 1
       ELSE UNCHANGED << orderReqs, orderIssued >>
    /\ UNCHANGED server
    /\ UNCHANGED << formData, story, uiState, cart, isLoading, imagePreview,
                    clientSecret, stripe, storyReqs, sessionReqs, alertMsg, edits >>

\* The try block of onPaymentSuccess throws: only a rejected fetch does, the
\* response is neither parsed nor checked (index.html:172-184).
OrderCallThrows(r) == FetchRejects(r)

OrderResponse(r) ==
    /\ orderReqs > 0
    /\ orderReqs' = orderReqs - 1
    /\ lastResponse' = [ call |-> "order", resp |-> r ]
    /\ IF OrderCallThrows(r)
       THEN /\ alertMsg' = "Payment succeeded, but failed to create final order"
            /\ UNCHANGED uiState
       ELSE /\ uiState' = "confirmation"
            /\ UNCHANGED alertMsg
    /\ UNCHANGED server
    /\ UNCHANGED << formData, story, cart, isLoading, imagePreview, clientSecret,
                    isProcessing, errorMessage, stripe, storyReqs, sessionReqs,
                    confirmReqs, paymentConfirmed, orderIssued, edits >>

\* "Create Another Book": window.location.reload() (index.html:282) mounts a
\* fresh App; Stripe.js loads again when it is configured.
Reload ==
    /\ CanReload
    /\ formData' = InitialFormData
    /\ story' = ""
    /\ uiState' = "form"
    /\ cart' = ComputeCart(InitialFormData)
    /\ isLoading' = FALSE
    /\ imagePreview' = Null
    /\ clientSecret' = ""
    /\ isProcessing' = FALSE
    /\ errorMessage' = ""
    /\ stripe' = IF stripe = "unconfigured" THEN "unconfigured" ELSE "loading"
    /\ storyReqs' = << >>
    /\ sessionReqs' = << >>
    /\ confirmReqs' = 0
    /\ orderReqs' = 0
    /\ alertMsg' = "none"
    /\ lastResponse' = NoResponse
    /\ paymentConfirmed' = FALSE
    /\ orderIssued' = 0
    /\ edits' = 0
    /\ UNCHANGED server

----------------------------------------------------------------------------
Next ==
    \/ \E input \in InputChoices : HandleInputChange(input[1], input[2])
    \/ \E choice \in OptionChoices : HandleOptionSelect(choice[1], choice[2])
    \/ \E file \in Files : HandleImageChange(file)
    \/ \E text \in StoryEdits : HandleStoryEdit(text)
    \/ HandleStoryGeneration
    \/ \E i \in 1..Len(storyReqs), r \in FetchResponses : StoryResponse(i, r)
    \/ HandleFinalizeOrder
    \/ \E i \in 1..Len(sessionReqs), r \in FetchResponses : SessionResponse(i, r)
    \/ StripeLoaded
    \/ HandleSubmit
    \/ \E r \in ConfirmResults : ConfirmResponse(r)
    \/ \E r \in FetchResponses : OrderResponse(r)
    \/ Reload

Spec == Init /\ [][Next]_vars

----------------------------------------------------------------------------
\* The pricing effect over every selection: the draft mutations that feed the
\* price (index.html:108-109, 187-205) on the form, with every key of
\* PRICING_DATA, the unselected value '' and a key the table lacks, and with
\* page texts that are a count, a negative count, a count followed by a letter
\* and no number at all.  The number of mutations is not limited here.

PricingGroups == { "bookSize", "bookType", "coverFinish", "interiorPrint",
                   "paperType", "shipping" }

PricingOptionChoices ==
    { << g, k >> : g \in PricingGroups, k \in { "", "ZZ" } } \cup
    UNION { { << g, k >> : k \in DOMAIN PRICING_DATA[g] } : g \in PricingGroups }

PageTexts == { EmptyText, << "1" >>, << "1", "0", "0" >>, << "-", "5" >>,
               << "7", "p" >>, << "a", "b" >> }

PricingOptionSelect(key, value) ==
    /\ uiState = "form"
    /\ ApplyField(key, value)
    /\ UNCHANGED server
    /\ UNCHANGED << story, uiState, isLoading, imagePreview, clientSecret, isProcessing,
                    errorMessage, stripe, storyReqs, sessionReqs, confirmReqs, orderReqs,
                    alertMsg, lastResponse, paymentConfirmed, orderIssued, edits >>

PricingPageRangeChange(text) ==
    /\ uiState = "form"
    /\ ApplyField("pageRange", text)
    /\ UNCHANGED server
    /\ UNCHANGED << story, uiState, isLoading, imagePreview, clientSecret, isProcessing,
                    errorMessage, stripe, storyReqs, sessionReqs, confirmReqs, orderReqs,
                    alertMsg, lastResponse, paymentConfirmed, orderIssued, edits >>

PricingNext ==
    \/ \E choice \in PricingOptionChoices : PricingOptionSelect(choice[1], choice[2])
    \/ \E text \in PageTexts : PricingPageRangeChange(text)

PricingSpec == Init /\ [][PricingNext]_vars

----------------------------------------------------------------------------
\* POST /api/create-payment-intent (server.js:104-130)

\* The handler up to its await: the amount from the price table; 400 when it
\* is 0, otherwise the provider is called with it (server.js:106-123).
CreatePaymentIntent(r, body) ==
    /\ server[r].pc = "idle"
    /\ LET totalAmount == TotalAmount(body)
       IN  IF StrictlyZero(totalAmount)
           THEN server' = [ server EXCEPT ![r] =
                    [ pc |-> "done", body |-> body, providerCalls |-> << >>,
                      response |-> [ status |-> 400, totalAmount |-> UndefinedValue ] ] ]
           ELSE server' = [ server EXCEPT ![r] =
                    [ pc |-> "creating", body |-> body,
                      providerCalls |-> << totalAmount >>,
                      response |-> NoResult ] ]
    /\ UNCHANGED appVars

\* The provider returns a payment intent: 200 with its client_secret and the
\* amount (server.js:125).
PaymentIntentCreated(r) ==
    /\ server[r].pc = "creating"
    /\ server' = [ server EXCEPT ![r].pc = "done",
                                 ![r].response = [ status |-> 200,
                                     totalAmount |-> server[r].providerCalls[1] ] ]
    /\ UNCHANGED appVars

\* The provider call throws: 500 (server.js:126-129).
PaymentIntentFails(r) ==
    /\ server[r].pc = "creating"
    /\ server' = [ server EXCEPT ![r].pc = "done",
                                 ![r].response = [ status |-> 500,
                                     totalAmount |-> UndefinedValue ] ]
    /\ UNCHANGED appVars

ServerNext ==
    \/ \E r \in PaymentIntentRequests, body \in RequestBodies : CreatePaymentIntent(r, body)
    \/ \E r \in PaymentIntentRequests : PaymentIntentCreated(r)
    \/ \E r \in PaymentIntentRequests : PaymentIntentFails(r)

ServerSpec == Init /\ [][ServerNext]_vars

----------------------------------------------------------------------------
\* Properties

\* Responses that are a failed call: network failure, non-success status, or a
\* body that cannot be parsed.
FailedResponses == { "network_error", "http_error_json", "http_error_text", "ok_text" }

\* A call of the given kind is resolved by this step.
StoryResolves == Len(storyReqs') < Len(storyReqs)
SessionResolves == Len(sessionReqs') < Len(sessionReqs)
ConfirmResolves == confirmReqs' < confirmReqs

\* title, genre, promptText and coverImage are all present (the check of
\* server.js:59 on the draft's own field names).
RequiredFieldsPresent(fd) ==
    /\ fd.bookTitle # EmptyText
    /\ fd.genre # EmptyText
    /\ fd.promptText # EmptyText
    /\ fd.coverImage # Null

\* C1: the order-creation request is never issued before the payment
\* confirmation has returned without an error: whenever an order-creation
\* request has been issued or is in flight, confirmPayment has succeeded in
\* this session.
C1_OrderOnlyAfterPaymentConfirmed ==
    (orderIssued > 0 \/ orderReqs > 0) => paymentConfirmed

\* C1 witness: with a total > 0, payment was confirmed and the order-creation
\* request is in flight.
C1_Witness ==
    /\ cart.total > 0
    /\ paymentConfirmed
    /\ orderIssued = 1
    /\ orderReqs = 1
    /\ uiState = "finalize"

\* C2: when the order-recording call fails (network failure or any
\* non-success response) the state remains finalize, and the state is
\* confirmation only after an order-recording call that resolved successfully.
C2_OrderFailureStaysFinalize ==
    /\ (lastResponse.call = "order" /\ ~ResponseOk(lastResponse.resp))
           => uiState = "finalize"
    /\ uiState = "confirmation"
           => (lastResponse.call = "order" /\ ResponseOk(lastResponse.resp))

\* C3: the state leaves form only by a draft submission whose draft, as it was
\* when the transition was triggered, holds title, genre, promptText and
\* coverImage.
C3_LeavesFormOnlyWithRequiredFields ==
    [][ (uiState = "form" /\ uiState' # "form")
            => \E i \in 1..Len(storyReqs) :
                   /\ storyReqs' = RemoveAt(storyReqs, i)
                   /\ RequiredFieldsPresent(storyReqs[i]) ]_vars

\* C4: a failed draft submission (network failure, non-success status or
\* malformed body) leaves every field of the draft unchanged and leaves the
\* state at form.
C4_FailedDraftSubmissionKeepsDraft ==
    [][ (StoryResolves /\ lastResponse'.resp \in FailedResponses)
            => (formData' = formData /\ uiState = "form" /\ uiState' = "form") ]_vars

\* C4 witness: a draft with fields set was submitted, the submission failed,
\* and the draft and the state are as before.
C4_Witness ==
    /\ lastResponse.call = "story"
    /\ lastResponse.resp \in FailedResponses
    /\ alertMsg = "Could not generate story"
    /\ formData.bookTitle # EmptyText
    /\ formData.coverImage # Null
    /\ uiState = "form"
    /\ ~isLoading

\* C5: an amount below the minimum charge of 50 minor units is refused
\* locally: no payment-session request carrying such an amount is ever sent.
C5_NoSessionRequestBelowMinimum ==
    \A i \in 1..Len(sessionReqs) : sessionReqs[i] >= 50

\* C6: on the preview -> finalize transition with total > 0 the payment
\* session is obtained before the state becomes finalize: the step that enters
\* finalize ends with a payment session in hand.
C6_SessionBeforeFinalize ==
    [][ (uiState = "preview" /\ uiState' = "finalize" /\ cart.total > 0)
            => Truthy(clientSecret') ]_vars

\* C7: when the payment-session request fails, the user is back in preview
\* (the state has not advanced to finalize) and the draft is intact.
C7_SessionFailureReturnsToPreview ==
    [][ (SessionResolves /\ lastResponse'.resp \in FailedResponses)
            => (uiState' = "preview" /\ formData' = formData) ]_vars

\* C8: a story-generation response that is non-2xx, or 2xx without a story
\* field, is a failure: the state stays form and no story is stored.
C8_BadStoryResponseIsFailure ==
    (/\ lastResponse.call = "story"
     /\ lastResponse.resp \in { "http_error_json", "http_error_text", "ok_json_missing" })
        => (uiState = "form" /\ story = "")

\* C9: while a call of a transition (draft submission, payment-session
\* request, payment confirmation) is in flight, its triggering action is
\* disabled, so at most one call of each transition is in flight.
C9_NoRetriggerWhileInFlight ==
    /\ Len(storyReqs) <= 1
    /\ Len(sessionReqs) <= 1
    /\ confirmReqs <= 1
    /\ (Len(storyReqs) > 0 => ~CanGenerate)
    /\ (Len(sessionReqs) > 0 => ~CanFinalize)
    /\ (confirmReqs > 0 => ~CanPay)

\* C9 witness: a payment confirmation is in flight on the mounted payment
\* form and the pay button is disabled.
C9_Witness ==
    /\ confirmReqs = 1
    /\ CheckoutShown
    /\ stripe = "ready"
    /\ ~CanPay

\* C10: after a failed transition (draft submission, payment-session request,
\* payment confirmation) the user is in the state the transition was triggered
\* from and its triggering action is enabled again.
C10_RetryAfterFailure ==
    [][ /\ (StoryResolves /\ lastResponse'.resp \in FailedResponses)
            => (uiState' = "form" /\ CanGenerate')
        /\ (SessionResolves /\ lastResponse'.resp \in FailedResponses)
            => (uiState' = "preview" /\ CanFinalize')
        /\ (ConfirmResolves /\ lastResponse'.resp = "error")
            => (uiState' = "finalize" /\ CanPay') ]_vars

\* The two parts of C10 that the code keeps: draft submission and payment
\* confirmation can be retried after a failure.
RetryAfterDraftOrConfirmFailure ==
    [][ /\ (StoryResolves /\ lastResponse'.resp \in FailedResponses)
            => (uiState' = "form" /\ CanGenerate')
        /\ (ConfirmResolves /\ lastResponse'.resp = "error")
            => (uiState' = "finalize" /\ CanPay') ]_vars

\* C11: the state machine is forward-only: uiState changes only along
\* form -> preview -> finalize -> confirmation, one state at a time, and the
\* only way back to form is the reload offered in confirmation.
C11_ForwardOnly ==
    [][ uiState' # uiState
            => \/ << uiState, uiState' >> \in { << "form", "preview" >>,
                                                << "preview", "finalize" >>,
                                                << "finalize", "confirmation" >> }
               \/ (CanReload /\ uiState' = "form" /\ formData' = InitialFormData
                   /\ orderIssued' = 0) ]_vars

\* C11 witness: the session went through all four states and the reload
\* button is on screen.
C11_Witness ==
    /\ uiState = "confirmation"
    /\ lastResponse = [ call |-> "order", resp |-> "ok_json" ]
    /\ story = "generated story"
    /\ Truthy(clientSecret)

\* The amounts of the cart are whole numbers of minor units (10 mills).
WholeMinorUnits(c) ==
    c.subtotal % 10 = 0 /\ c.shipping % 10 = 0 /\ c.total % 10 = 0

\* C12: for every selection the cart satisfies total = subtotal + shippingCost
\* and subtotal = baseCost x (1 + marginRate) exactly in minor units, and the
\* cart is the one computed from the current selection however many
\* recomputations came before (no drift).
C12_CartExactInMinorUnits ==
    /\ cart.total = cart.subtotal + cart.shipping
    /\ 100 * cart.subtotal = BaseCost(formData) * (100 + PROFIT_MARGIN_PERCENTAGE)
    /\ cart = ComputeCart(formData)
    /\ WholeMinorUnits(cart)

\* The part of C12 that the code keeps: the two identities hold in exact
\* arithmetic and the cart is always that of the current selection.
CartIdentities ==
    /\ cart.total = cart.subtotal + cart.shipping
    /\ 100 * cart.subtotal = BaseCost(formData) * (100 + PROFIT_MARGIN_PERCENTAGE)
    /\ cart = ComputeCart(formData)

\* C13: with bookType 'EBOOK' the shipping cost of the cart is 0 whatever the
\* shipping method is.
C13_EbookShipsFree ==
    formData.bookType = "EBOOK" => cart.shipping = 0

\* C13 witness: an e-book with express shipping selected, priced with no
\* shipping cost.
C13_Witness ==
    /\ formData.bookType = "EBOOK"
    /\ formData.shipping = "express"
    /\ formData.bookSize = "0600X0900"
    /\ cart = [ subtotal |-> 4500, shipping |-> 0, total |-> 4500 ]

\* The table price of a group's key, 0 for a key that is unselected or absent.
KnownPrice(g) ==
    IF formData[g] \in DOMAIN PRICING_DATA[g] THEN PRICING_DATA[g][formData[g]] ELSE 0

\* C14: an option key that is unselected or absent from the price table
\* contributes exactly 0 to the base cost and to the shipping cost: the cart is
\* priced from the keys the table knows alone, and the computation has a
\* result for every selection.
C14_MissingKeyCostsNothing ==
    LET pages == PageCount(formData.pageRange)
        base  == KnownPrice("bookSize") + KnownPrice("bookType")
                 + KnownPrice("coverFinish") + KnownPrice("paperType")
                 + pages * KnownPrice("interiorPrint")
    IN  /\ 100 * cart.subtotal = base * (100 + PROFIT_MARGIN_PERCENTAGE)
        /\ cart.shipping = IF formData.bookType = "EBOOK" THEN 0 ELSE KnownPrice("shipping")
        /\ (\A g \in PricingGroups : formData[g] \notin DOMAIN PRICING_DATA[g])
               => cart = [ subtotal |-> 0, shipping |-> 0, total |-> 0 ]

\* C14 witness: a selection mixing known keys with an absent key and
\* unselected groups, priced from the known keys only.
C14_Witness ==
    /\ formData.bookSize = "0600X0900"
    /\ formData.coverFinish = "ZZ"
    /\ formData.shipping = "ZZ"
    /\ formData.interiorPrint = "ZZ"
    /\ formData.pageRange = << "1", "0", "0" >>
    /\ formData.paperType = ""
    /\ cart = [ subtotal |-> 4500, shipping |-> 0, total |-> 4500 ]

\* C15: size 0600X0900, type PB, finish G, paper 060CW, print BW, 100 pages,
\* standard shipping, margin 50 %: base cost 6.50, subtotal 9.75, total 14.74
\* (650, 975 and 1474 minor units).
C15_Scenario ==
    (/\ formData.bookSize = "0600X0900"
     /\ formData.bookType = "PB"
     /\ formData.coverFinish = "G"
     /\ formData.paperType = "060CW"
     /\ formData.interiorPrint = "BW"
     /\ formData.pageRange = << "1", "0", "0" >>
     /\ formData.shipping = "standard")
        => /\ BaseCost(formData) = 6500
           /\ cart.subtotal = 9750
           /\ cart.total = 14740
           /\ RoundToMinorUnits(cart.subtotal) = 975
           /\ RoundToMinorUnits(cart.total) = 1474

\* C15 witness: the scenario's selection has been made.
C15_Witness ==
    /\ formData.bookSize = "0600X0900"
    /\ formData.bookType = "PB"
    /\ formData.coverFinish = "G"
    /\ formData.paperType = "060CW"
    /\ formData.interiorPrint = "BW"
    /\ formData.pageRange = << "1", "0", "0" >>
    /\ formData.shipping = "standard"
    /\ cart.shipping = 4990

\* C16: when the payment confirmation returns an error, the state remains
\* finalize, the error message is stored for display, and no order-creation
\* request is issued.
C16_ConfirmErrorStaysFinalize ==
    [][ (ConfirmResolves /\ lastResponse'.resp = "error")
            => /\ uiState = "finalize" /\ uiState' = "finalize"
               /\ errorMessage' # ""
               /\ orderReqs' = orderReqs
               /\ orderIssued' = orderIssued ]_vars

\* C16 witness: a payment confirmation has just failed; the message is on the
\* payment form and no order was requested.
C16_Witness ==
    /\ lastResponse = [ call |-> "confirm", resp |-> "error" ]
    /\ errorMessage = "card declined"
    /\ uiState = "finalize"
    /\ orderIssued = 0
    /\ orderReqs = 0
    /\ ~paymentConfirmed

\* C17: the payment form is shown, and a payment confirmation can be started,
\* only after the payment-session request has completed successfully and its
\* handle is stored: the handle appears only with a successful session
\* response, and whenever the form is shown or a confirmation was ever started
\* the handle is stored and no session request is in flight.
C17_CheckoutOnlyAfterSession ==
    /\ [](( \/ CheckoutShown
            \/ confirmReqs > 0
            \/ isProcessing
            \/ paymentConfirmed
            \/ errorMessage # "" )
              => (Truthy(clientSecret) /\ Len(sessionReqs) = 0))
    /\ [][ (Truthy(clientSecret') /\ ~Truthy(clientSecret))
              => (SessionResolves /\ lastResponse'.resp = "ok_json") ]_vars

\* C17 witness: the session request has just succeeded, Stripe is ready, and
\* the pay button of the payment form can be pressed.
C17_Witness ==
    /\ lastResponse = [ call |-> "session", resp |-> "ok_json" ]
    /\ clientSecret = "pi_secret"
    /\ CanPay
    /\ confirmReqs = 0

\* The number of external calls in flight.
InFlight == Len(storyReqs) + Len(sessionReqs) + confirmReqs + orderReqs

\* C18: at most one external call (draft submission, payment-session request,
\* payment confirmation, order creation) is in flight in every reachable state.
C18_AtMostOneInFlight == InFlight <= 1

\* C18 witness: the payment-session request is the one call in flight.
C18_Witness ==
    /\ Len(sessionReqs) = 1
    /\ InFlight = 1
    /\ uiState = "finalize"

\* C19: within one session the order-creation request is issued at most once:
\* once a payment confirmation has succeeded the pay action stays disabled
\* (isProcessing stays set while the payment form is mounted) and no further
\* confirmation is in flight, also after the order-creation call failed.
C19_OrderIssuedAtMostOnce ==
    /\ orderIssued <= 1
    /\ paymentConfirmed
           => /\ ~CanPay
              /\ confirmReqs = 0
              /\ orderIssued = 1
              /\ (uiState = "finalize" => isProcessing)

\* C19 witness: the payment was confirmed, the order-creation call failed
\* with a network error, and the pay button is still disabled.
C19_Witness ==
    /\ lastResponse = [ call |-> "order", resp |-> "network_error" ]
    /\ alertMsg = "Payment succeeded, but failed to create final order"
    /\ uiState = "finalize"
    /\ CheckoutShown
    /\ isProcessing
    /\ orderIssued = 1
    /\ orderReqs = 0

\* C20: when the total is 0 at the preview -> finalize transition, no
\* payment-session request is made and clientSecret stays empty; and a session
\* in finalize with no handle and no session request in flight stays so, with
\* no payment confirmation and no order-creation request, whatever the user
\* does.
C20_ZeroTotalNeverConfirms ==
    /\ [][ (uiState = "preview" /\ uiState' = "finalize" /\ cart.total = 0)
              => (Len(sessionReqs') = 0 /\ clientSecret' = "") ]_vars
    /\ [][ (uiState = "finalize" /\ clientSecret = "" /\ Len(sessionReqs) = 0)
              => /\ uiState' = "finalize"
                 /\ clientSecret' = ""
                 /\ Len(sessionReqs') = 0
                 /\ confirmReqs' = 0
                 /\ orderReqs' = 0
                 /\ orderIssued' = 0 ]_vars

\* C20 witness: finalize was entered with a total of 0: no session request
\* was sent (the story response is still the last one), there is no handle,
\* and the shipping name has been typed since.
C20_Witness ==
    /\ uiState = "finalize"
    /\ cart.total = 0
    /\ edits = 1
    /\ formData.shippingName # EmptyText
    /\ lastResponse.call = "story"
    /\ Len(sessionReqs) = 0
    /\ clientSecret = ""
    /\ ~CheckoutShown
    /\ orderIssued = 0

\* C21: after any sequence of draft mutations (handleInputChange,
\* handleOptionSelect, handleImageChange), including a pageRange text that is
\* no number or a negative number, the cart's subtotal, shipping and total are
\* all at least 0.
C21_CartNeverNegative ==
    /\ cart.subtotal >= 0
    /\ cart.shipping >= 0
    /\ cart.total >= 0

\* What does hold of the cart's sign: the shipping price is never negative, a
\* page text that is no number prices as 0 pages, and the subtotal is
\* negative only when the page text parses to a negative count.
CartSign ==
    /\ cart.shipping >= 0
    /\ ParseInt(formData.pageRange).nan => PageCount(formData.pageRange) = 0
    /\ PageCount(formData.pageRange) >= 0 => C21_CartNeverNegative

\* Two received requests that differ at most in the client-supplied
\* totalAmount.
SameOrder(a, b) ==
    /\ server[a].pc # "idle"
    /\ server[b].pc # "idle"
    /\ server[a].body.bookType = server[b].body.bookType
    /\ server[a].body.shippingType = server[b].body.shippingType

\* The client-supplied totalAmount has no influence: two such requests pass
\* the same amounts to the provider, are refused with 400 alike, and answer
\* the same amount when the provider creates both intents.
PaymentIntentIgnoresTotalAmount ==
    \A a, b \in PaymentIntentRequests :
        SameOrder(a, b) =>
            /\ server[a].providerCalls = server[b].providerCalls
            /\ (server[a].pc = "done" /\ server[b].pc = "done") =>
                  /\ (server[a].response.status = 400) = (server[b].response.status = 400)
                  /\ (server[a].response.status = server[b].response.status)
                        => server[a].response = server[b].response

\* The price a key has in a group of the server's table, 0 for every other key.
TablePrice(group, key) ==
    IF key \in DOMAIN prices[group] THEN prices[group][key] ELSE 0

\* C22: the amount the create-payment-intent handler passes to the payment
\* provider depends only on the request's bookType and shippingType through
\* the server's price table: two requests that differ only in a
\* client-supplied totalAmount lead to the same outcome; every amount passed
\* to the provider is the table's price of the bookType plus the table's
\* price of the shippingType; and a request whose bookType and shippingType
\* are both missing or unknown to the table is answered 400 without a call of
\* the provider.
C22_AmountFromPriceTableOnly ==
    /\ PaymentIntentIgnoresTotalAmount
    /\ \A r \in PaymentIntentRequests :
          /\ \A i \in 1..Len(server[r].providerCalls) :
                server[r].providerCalls[i] =
                    NumberValue(TablePrice("book", server[r].body.bookType)
                                + TablePrice("shipping", server[r].body.shippingType))
          /\ ( /\ server[r].pc # "idle"
               /\ server[r].body.bookType \notin DOMAIN prices.book
               /\ server[r].body.shippingType \notin DOMAIN prices.shipping )
             => /\ server[r].pc = "done"
                /\ server[r].response.status = 400
                /\ server[r].providerCalls = << >>

\* What does hold: the totalAmount of the request has no influence, and a
\* request whose two keys are each missing or a name that neither the table
\* nor Object.prototype has is answered 400 without a call of the provider.
PaymentIntentRefusesUnnamedKeys ==
    /\ PaymentIntentIgnoresTotalAmount
    /\ \A r \in PaymentIntentRequests :
          ( /\ server[r].pc # "idle"
            /\ server[r].body.bookType \notin DOMAIN prices.book \cup ObjectPrototypeKeys
            /\ server[r].body.shippingType
                  \notin DOMAIN prices.shipping \cup ObjectPrototypeKeys )
          => /\ server[r].pc = "done"
             /\ server[r].response.status = 400
             /\ server[r].providerCalls = << >>

\* Two requests that differ in totalAmount alone have both been answered 200.
PaymentIntentPairAnswered ==
    /\ SameOrder("a", "b")
    /\ server["a"].body.totalAmount # server["b"].body.totalAmount
    /\ server["a"].response.status = 200
    /\ server["b"].response.status = 200

====
